---- MODULE Spec2Model ----
(***************************************************************************)
(* grpccache: a client-side cache of unary gRPC call results.              *)
(*                                                                         *)
(* The model follows src/grpccache.go (the Cache with expiry and MaxSize,  *)
(* lines 77-238), src/unnamed/part_002 (CacheControl with MaxAge and the   *)
(* "cache-control:max-age" trailer) and the client wrapper body that       *)
(* src/unnamed/part_000 generates (lines 281-305).                         *)
(*                                                                         *)
(* Time is counted in whole seconds.  A uint64 is represented by the       *)
(* integer v in (-2^31, 2^31) that is congruent to it modulo 2^64: a       *)
(* negative v stands for 2^64 + v, the value an underflowing subtraction   *)
(* leaves.  Additions and subtractions of small lengths are then plain     *)
(* integer arithmetic and only the comparison needs care (U64Gt).          *)
(*                                                                         *)
(* Specifications: Spec (Get, Store and Clear called directly, each as a   *)
(* whole), SpecKeys (the same over many keys), SpecClient (calls through   *)
(* the wrapper, one at a time), SpecServer (the wrapper and a handler that *)
(* sets the cache control), SpecConc (overlapping wrapper calls),          *)
(* SpecLock (Get, Store and Clear one statement at a time under c.mu) and  *)
(* SpecLockFair (SpecLock under fair scheduling).                          *)
(***************************************************************************)
EXTENDS Integers, Sequences, FiniteSets, TLC

\* ------------------------------------------------------------------ bounds
\* The clock advances from 0 to MaxTime.
MaxTime == 3

\* ------------------------------------------------------------------ inputs
\* A nil message (proto.Marshal returns ErrNil for it), as a value outside
\* the field values in use.
NilMsg == 0 - 1

Methods == {"Test.A", "Test.B"}
\* Requests are TestOp{A: n}.
Args == {1, 2, NilMsg}
\* Results are TestResult{X: n}; they serialize to 2 and 3 bytes.
Results == {1, 200, NilMsg}
\* A context carries the user that KeyPart, when set, extracts; id tells
\* apart the contexts of one user.
Ctxs ==
    { [user |-> "u", id |-> 1], [user |-> "u", id |-> 2],
      [user |-> "v", id |-> 1] }
NoCtx == [user |-> "", id |-> 0]
\* The client wrappers that may be inside a call.
Threads == {1, 2}
\* Cache.MaxSize values the cache is configured with (0 = unbounded).
MaxSizes == {0, 4}

MaxAgeKey == "cache-control:max-age"
\* Trailer values, as sequences of characters.
MaxAgeValues ==
    { <<"2", "s">>, <<"1", "s">>, <<"0", "s">>, <<"-", "1", "s">>, <<"2">> }
\* metadata.MD: a map from key to value.
NoTrailer == [k \in {} |-> <<>>]
Trailers == {NoTrailer} \cup { [k \in {MaxAgeKey} |-> v] : v \in MaxAgeValues }

VARIABLES
    results,   \* Cache.results: key -> cacheEntry
    size,      \* Cache.size (uint64)
    MaxSize,   \* Cache.MaxSize (uint64), fixed at construction
    KeyPart,   \* Cache.KeyPart: "nil" or "user" (returns the context's user)
    now,       \* time.Now()
    last,      \* what the last engine operation returned, and by which path
    stored,    \* history: per (method, request bytes, partition key), the
               \* accepted Store whose entry has not been removed since
    hasCache,  \* whether the client wrapper's Cache field is non-nil
    w,         \* per thread, the client wrapper call it is in
    mu,        \* Cache.mu: 0 when unlocked, else the thread that locked it
    ops        \* per thread, the statement of Get, Store or Clear it is at

config == <<MaxSize, KeyPart, hasCache>>
vars ==
    <<results, size, MaxSize, KeyPart, now, last, stored, hasCache, w, mu, ops>>

\* --------------------------------------------------------- pure functions
\* uint64 comparison a > b on representatives (a negative one is near 2^64).
U64Gt(a, b) ==
    IF (a < 0) = (b < 0) THEN a > b ELSE a < 0

\* The base-128 varint of n, low group first.
RECURSIVE Varint(_)
Varint(n) ==
    IF n < 128 THEN <<n>> ELSE <<128 + (n % 128)>> \o Varint(n \div 128)

\* proto.Marshal of a message with one integer field (field 1, varint):
\* ErrNil for a nil message, nothing for the zero value.
Marshal(msg) ==
    IF msg = NilMsg THEN [err |-> "ErrNil", data |-> <<>>]
    ELSE IF msg = 0 THEN [err |-> "nil", data |-> <<>>]
    ELSE [err |-> "nil", data |-> <<8>> \o Varint(msg)]

\* The value of the varint that starts data, and how many bytes it takes
\* (0 bytes when data ends inside it).
RECURSIVE DecodeVarint(_)
DecodeVarint(data) ==
    IF data = <<>> THEN [n |-> 0, len |-> 0]
    ELSE IF Head(data) < 128 THEN [n |-> Head(data), len |-> 1]
    ELSE LET rest == DecodeVarint(Tail(data))
         IN  IF rest.len = 0 THEN [n |-> 0, len |-> 0]
             ELSE [n |-> (Head(data) - 128) + 128 * rest.n, len |-> 1 + rest.len]

\* proto.Unmarshal into a fresh message of the same type.
Unmarshal(data) ==
    IF data = <<>> THEN [err |-> "nil", msg |-> 0]
    ELSE IF Head(data) # 8 THEN [err |-> "ErrUnmarshal", msg |-> 0]
    ELSE LET v == DecodeVarint(Tail(data))
         IN  IF v.len = 0 \/ v.len # Len(data) - 1
             THEN [err |-> "ErrUnmarshal", msg |-> 0]
             ELSE [err |-> "nil", msg |-> v.n]

\* base64.StdEncoding of sha256.Sum256 of the serialized requests in use.
Sha256Base64(data) ==
    CASE data = <<>>     -> "47DEQpj8HBSa+/TImW+5JCeuQeRkm5NMpJWZG3hSuFU="
      [] data = <<8, 1>> -> "+42n61sbOZ5zIRedrJ6fZXc9czHh4wVU45EeQyXh7xk="
      [] data = <<8, 2>> -> "elPMXetgUS89rKzHaV3VByB3xvSYTb7b/3bicJI5Oxw="

\* Cache.KeyPart, when set, returns the user of the context.
KeyPartOf(ctx) == ctx.user

\* cacheKey as it was before KeyPart: the method and the request only.
cacheKey_NoKeyPart(ctx, method, arg) ==
    LET m == Marshal(arg)
    IN  IF m.err # "nil" THEN [err |-> m.err, key |-> ""]
        ELSE [err |-> "nil", key |-> method \o "-" \o Sha256Base64(m.data)]

\* Cache.cacheKey
cacheKey(ctx, method, arg) ==
    LET m == Marshal(arg)
        s == method \o "-" \o Sha256Base64(m.data)
    IN  IF m.err # "nil" THEN [err |-> m.err, key |-> ""]
        ELSE IF KeyPart # "nil"
             THEN [err |-> "nil", key |-> s \o "-" \o KeyPartOf(ctx)]
             ELSE [err |-> "nil", key |-> s]

Digits == {"0", "1", "2", "3", "4", "5", "6", "7", "8", "9"}
DigitValue(c) ==
    CASE c = "0" -> 0 [] c = "1" -> 1 [] c = "2" -> 2 [] c = "3" -> 3
      [] c = "4" -> 4 [] c = "5" -> 5 [] c = "6" -> 6 [] c = "7" -> 7
      [] c = "8" -> 8 [] c = "9" -> 9

\* The seconds in a unit of time.ParseDuration's unitMap (units below a
\* second are not representable at this granularity).
UnitSeconds(u) ==
    CASE u = <<"s">> -> 1 [] u = <<"m">> -> 60 [] u = <<"h">> -> 3600
      [] OTHER -> 0

\* Number of leading characters of s that are (isDigit = TRUE) or are not
\* (isDigit = FALSE) digits or dots.
RECURSIVE Leading(_, _)
Leading(s, isDigit) ==
    IF s = <<>> THEN 0
    ELSE IF (Head(s) \in Digits \cup {"."}) = isDigit
         THEN 1 + Leading(Tail(s), isDigit)
         ELSE 0

RECURSIVE DigitsValue(_, _)
DigitsValue(s, acc) ==
    IF s = <<>> THEN acc
    ELSE DigitsValue(Tail(s), 10 * acc + DigitValue(Head(s)))

\* The loop of time.ParseDuration: one or more <digits><unit> terms.
RECURSIVE ParseTerms(_, _)
ParseTerms(s, d) ==
    IF s = <<>> THEN [err |-> "nil", d |-> d]
    ELSE LET nd == Leading(s, TRUE)
             num == SubSeq(s, 1, nd)
             rest == SubSeq(s, nd + 1, Len(s))
             nu == Leading(rest, FALSE)
             unit == SubSeq(rest, 1, nu)
         IN  IF nd = 0 \/ "." \in {num[i] : i \in 1..nd}
                THEN [err |-> "ErrDuration", d |-> 0]
             ELSE IF nu = 0 \/ UnitSeconds(unit) = 0
                THEN [err |-> "ErrDuration", d |-> 0]
             ELSE ParseTerms(SubSeq(rest, nu + 1, Len(rest)),
                             d + DigitsValue(num, 0) * UnitSeconds(unit))

\* time.ParseDuration
ParseDuration(str) ==
    LET signed == str # <<>> /\ Head(str) \in {"-", "+"}
        neg == signed /\ Head(str) = "-"
        s == IF signed THEN Tail(str) ELSE str
    IN  IF s = <<"0">> THEN [err |-> "nil", d |-> 0]
        ELSE IF s = <<>> THEN [err |-> "ErrDuration", d |-> 0]
        ELSE LET r == ParseTerms(s, 0)
             IN  IF r.err # "nil" THEN r
                 ELSE [err |-> "nil", d |-> IF neg THEN 0 - r.d ELSE r.d]

\* The absent directive (a nil *CacheControl).
NilCC == [nil |-> TRUE, MaxAge |-> 0]

\* getCacheControl that takes an unparsable max-age for no directive.
getCacheControl_IgnoreBad(md) ==
    IF MaxAgeKey \in DOMAIN md /\ ParseDuration(md[MaxAgeKey]).err = "nil"
    THEN [err |-> "nil",
          cc |-> [nil |-> FALSE, MaxAge |-> ParseDuration(md[MaxAgeKey]).d]]
    ELSE [err |-> "nil", cc |-> NilCC]

\* getCacheControl: the directive a trailer carries, if any.
getCacheControl(md) ==
    IF MaxAgeKey \in DOMAIN md
    THEN LET p == ParseDuration(md[MaxAgeKey])
         IN  IF p.err # "nil" THEN [err |-> p.err, cc |-> NilCC]
             ELSE [err |-> "nil", cc |-> [nil |-> FALSE, MaxAge |-> p.d]]
    ELSE [err |-> "nil", cc |-> NilCC]

\* cacheable that takes a zero MaxAge for cacheable.
cacheable_Zero(cc) == cc.MaxAge >= 0

\* CacheControl.cacheable
cacheable(cc) == cc.MaxAge > 0

\* The decimal digits of n >= 0.
RECURSIVE Itoa(_)
Itoa(n) ==
    LET c == <<"0", "1", "2", "3", "4", "5", "6", "7", "8", "9">>[(n % 10) + 1]
    IN  IF n < 10 THEN <<c>> ELSE Itoa(n \div 10) \o <<c>>

\* time.Duration.String for whole seconds: "0s", "5s", "1m30s", "1h0m0s",
\* with a leading "-" for a negative duration.
DurationString(d) ==
    LET u == IF d < 0 THEN 0 - d ELSE d
        sec == Itoa(u % 60) \o <<"s">>
        min == IF u \div 60 > 0 THEN Itoa((u \div 60) % 60) \o <<"m">> ELSE <<>>
        hour == IF u \div 3600 > 0 THEN Itoa(u \div 3600) \o <<"h">> ELSE <<>>
    IN  (IF d < 0 THEN <<"-">> ELSE <<>>) \o hour \o min \o sec

\* SetCacheControl of the older scheme: the absolute expiry time under the
\* key "cache-expires".
SetCacheControl_Expires(cc) ==
    [k \in {"cache-expires"} |-> Itoa(now + cc.MaxAge)]

\* SetCacheControl: the trailer a handler sets for the directive cc.
SetCacheControl(cc) ==
    [k \in {MaxAgeKey} |-> DurationString(cc.MaxAge)]

\* ------------------------------------------------------------ the engine
\* A Go map without key k, and with k set to v.
MapDelete(m, k) == [x \in DOMAIN m \ {k} |-> m[x]]
MapSet(m, k, v) == [x \in DOMAIN m \cup {k} |-> IF x = k THEN v ELSE m[x]]

\* The zero cacheEntry, which indexing a map at a missing key yields.
ZeroEntry == [protoBytes |-> <<>>, cc |-> [MaxAge |-> 0], expiry |-> 0]
MapIndex(m, k) == IF k \in DOMAIN m THEN m[k] ELSE ZeroEntry

\* Get as it was before entries expired: whatever is stored is a hit.
Get_NoExpiry(ctx, method, arg) ==
    LET ck == cacheKey(ctx, method, arg)
        same == [results |-> results, size |-> size]
    IN  IF ck.err # "nil"
        THEN same @@ [cached |-> FALSE, out |-> NilMsg, err |-> ck.err,
                      path |-> "error"]
        ELSE IF ck.key \in DOMAIN results
        THEN same @@ [cached |-> TRUE,
                      out |-> Unmarshal(results[ck.key].protoBytes).msg,
                      err |-> "nil", path |-> "hit"]
        ELSE same @@ [cached |-> FALSE, out |-> NilMsg, err |-> "nil",
                      path |-> "miss"]

\* Get that purges an expired entry without adjusting the size.
Get_KeepSize(ctx, method, arg) ==
    LET ck == cacheKey(ctx, method, arg)
        same == [results |-> results, size |-> size]
    IN  IF ck.err # "nil"
        THEN same @@ [cached |-> FALSE, out |-> NilMsg, err |-> ck.err,
                      path |-> "error"]
        ELSE IF ck.key \in DOMAIN results
        THEN IF now > results[ck.key].expiry
             THEN [results |-> MapDelete(results, ck.key), size |-> size,
                   cached |-> FALSE, out |-> NilMsg, err |-> "nil",
                   path |-> "expired"]
             ELSE same @@ [cached |-> TRUE,
                           out |-> Unmarshal(results[ck.key].protoBytes).msg,
                           err |-> "nil", path |-> "hit"]
        ELSE same @@ [cached |-> FALSE, out |-> NilMsg, err |-> "nil",
                      path |-> "miss"]

\* Get with a sliding expiry: a hit renews the entry for another MaxAge.
Get_Touch(ctx, method, arg) ==
    LET ck == cacheKey(ctx, method, arg)
        same == [results |-> results, size |-> size]
    IN  IF ck.err # "nil"
        THEN same @@ [cached |-> FALSE, out |-> NilMsg, err |-> ck.err,
                      path |-> "error"]
        ELSE IF ck.key \in DOMAIN results
        THEN LET entry == results[ck.key]
                 u == Unmarshal(entry.protoBytes)
             IN  IF now > entry.expiry
                 THEN [results |-> MapDelete(results, ck.key),
                       size |-> size - Len(entry.protoBytes),
                       cached |-> FALSE, out |-> NilMsg, err |-> "nil",
                       path |-> "expired"]
                 ELSE [results |->
                         MapSet(results, ck.key,
                                [entry EXCEPT
                                   !.expiry = now + entry.cc.MaxAge]),
                       size |-> size, cached |-> TRUE, out |-> u.msg,
                       err |-> "nil", path |-> "hit"]
        ELSE same @@ [cached |-> FALSE, out |-> NilMsg, err |-> "nil",
                      path |-> "miss"]

\* Cache.Get: the state it leaves and what it returns.  path names the
\* return statement taken.
Get(ctx, method, arg) ==
    LET ck == cacheKey(ctx, method, arg)
        same == [results |-> results, size |-> size]
    IN  IF ck.err # "nil"
        THEN same @@ [cached |-> FALSE, out |-> NilMsg, err |-> ck.err,
                      path |-> "error"]
        ELSE IF ck.key \in DOMAIN results
        THEN LET entry == results[ck.key]
                 u == Unmarshal(entry.protoBytes)
             IN  IF now > entry.expiry
                 THEN [results |-> MapDelete(results, ck.key),
                       size |-> size - Len(entry.protoBytes),
                       cached |-> FALSE, out |-> NilMsg, err |-> "nil",
                       path |-> "expired"]
                 ELSE IF u.err # "nil"
                 THEN same @@ [cached |-> FALSE, out |-> NilMsg,
                               err |-> u.err, path |-> "error"]
                 ELSE same @@ [cached |-> TRUE, out |-> u.msg, err |-> "nil",
                               path |-> "hit"]
        ELSE same @@ [cached |-> FALSE, out |-> NilMsg, err |-> "nil",
                      path |-> "miss"]

\* AfterSize without the new payload's length.
AfterSize_NoAdd(key, data) ==
    IF key \in DOMAIN results
    THEN size - Len(results[key].protoBytes) ELSE size

\* AfterSize that does not take off the entry the new payload replaces.
AfterSize_NoSub(key, data) == size + Len(data)

\* Cache.Store, lines 204-208: the size the cache would have after the store.
AfterSize(key, data) ==
    (IF key \in DOMAIN results
     THEN size - Len(results[key].protoBytes) ELSE size) + Len(data)

\* A rejected store that leaves the occupant of the key in place.
StoreRejected_Keep(key) ==
    [results |-> results, size |-> size, err |-> "nil",
     path |-> IF key \in DOMAIN results THEN "evicted" ELSE "rejected"]

\* A rejected store that makes room by dropping every entry.
StoreRejected_EvictAll(key) ==
    [results |-> [k \in {} |-> ZeroEntry], size |-> 0, err |-> "nil",
     path |-> IF key \in DOMAIN results THEN "evicted" ELSE "rejected"]

\* Cache.Store, lines 209-216: the state a store over MaxSize leaves.
StoreRejected(key) ==
    IF key \in DOMAIN results
    THEN LET deleted == MapDelete(results, key)
         IN  [results |-> deleted,
              size |-> size - Len(MapIndex(deleted, key).protoBytes),
              err |-> "nil", path |-> "evicted"]
    ELSE [results |-> results, size |-> size, err |-> "nil",
          path |-> "rejected"]

\* Store that takes a result it cannot serialize for an invalidation and
\* drops the entry of the key.
Store_DropOnError(ctx, method, arg, result, trailer) ==
    LET m == Marshal(result)
        ck == cacheKey(ctx, method, arg)
        g == getCacheControl(trailer)
        same == [results |-> results, size |-> size]
    IN  IF m.err # "nil"
        THEN [results |-> MapDelete(results, ck.key),
              size |-> size - Len(MapIndex(results, ck.key).protoBytes),
              err |-> m.err, path |-> "error"]
        ELSE IF ck.err # "nil" THEN same @@ [err |-> ck.err, path |-> "error"]
        ELSE IF g.err # "nil" THEN same @@ [err |-> g.err, path |-> "error"]
        ELSE IF g.cc.nil \/ ~cacheable(g.cc)
             THEN same @@ [err |-> "nil", path |-> "nocache"]
        ELSE IF MaxSize # 0 /\ U64Gt(AfterSize(ck.key, m.data), MaxSize)
             THEN StoreRejected(ck.key)
        ELSE [results |-> MapSet(results, ck.key,
                                 [protoBytes |-> m.data,
                                  cc |-> [MaxAge |-> g.cc.MaxAge],
                                  expiry |-> now + g.cc.MaxAge]),
              size |-> AfterSize(ck.key, m.data),
              err |-> "nil", path |-> "stored"]

\* Store that looks at the directive before it serializes anything.
Store_CheckFirst(ctx, method, arg, result, trailer) ==
    LET m == Marshal(result)
        ck == cacheKey(ctx, method, arg)
        g == getCacheControl(trailer)
        same == [results |-> results, size |-> size]
    IN  IF g.err # "nil" THEN same @@ [err |-> g.err, path |-> "error"]
        ELSE IF g.cc.nil \/ ~cacheable(g.cc)
             THEN same @@ [err |-> "nil", path |-> "nocache"]
        ELSE IF m.err # "nil" THEN same @@ [err |-> m.err, path |-> "error"]
        ELSE IF ck.err # "nil" THEN same @@ [err |-> ck.err, path |-> "error"]
        ELSE IF MaxSize # 0 /\ U64Gt(AfterSize(ck.key, m.data), MaxSize)
             THEN StoreRejected(ck.key)
        ELSE [results |-> MapSet(results, ck.key,
                                 [protoBytes |-> m.data,
                                  cc |-> [MaxAge |-> g.cc.MaxAge],
                                  expiry |-> now + g.cc.MaxAge]),
              size |-> AfterSize(ck.key, m.data),
              err |-> "nil", path |-> "stored"]

\* Cache.Store: the state it leaves and what it returns.
Store(ctx, method, arg, result, trailer) ==
    LET m == Marshal(result)
        ck == cacheKey(ctx, method, arg)
        g == getCacheControl(trailer)
        same == [results |-> results, size |-> size]
    IN  IF m.err # "nil" THEN same @@ [err |-> m.err, path |-> "error"]
        ELSE IF ck.err # "nil" THEN same @@ [err |-> ck.err, path |-> "error"]
        ELSE IF g.err # "nil" THEN same @@ [err |-> g.err, path |-> "error"]
        ELSE IF g.cc.nil \/ ~cacheable(g.cc)
             THEN same @@ [err |-> "nil", path |-> "nocache"]
        ELSE IF MaxSize # 0 /\ U64Gt(AfterSize(ck.key, m.data), MaxSize)
             THEN StoreRejected(ck.key)
        ELSE [results |-> MapSet(results, ck.key,
                                 [protoBytes |-> m.data,
                                  cc |-> [MaxAge |-> g.cc.MaxAge],
                                  expiry |-> now + g.cc.MaxAge]),
              size |-> AfterSize(ck.key, m.data),
              err |-> "nil", path |-> "stored"]

\* Clear that resets the size counter and leaves the entries.
Clear_KeepEntries == [results |-> results, size |-> 0]

\* Clear that forgets the size counter.
Clear_KeepSize == [results |-> [k \in {} |-> <<>>], size |-> size]

\* Cache.Clear: the state it leaves.
Clear == [results |-> [k \in {} |-> ZeroEntry], size |-> 0]

\* ------------------------------------------------------------- history
\* The (method, request bytes, partition key) a call addresses.
Triple(ctx, method, arg) ==
    <<method, Marshal(arg).data, IF KeyPart = "nil" THEN "" ELSE KeyPartOf(ctx)>>

\* trailer: the trailer a Store was given; dropped: the number of entries a
\* Clear removed.
NoLast ==
    [op |-> "none", cached |-> FALSE, msg |-> NilMsg, err |-> "nil",
     path |-> "none", trailer |-> NoTrailer, dropped |-> 0]

\* A wrapper that is in no call.  got: what its Get returned; rpcs: how
\* often it invoked the real RPC; stores: how often it called Store.
IdleWrapper ==
    [pc |-> "idle", ctx |-> NoCtx, arg |-> NilMsg, got |-> "none",
     result |-> NilMsg, trailer |-> NoTrailer, rpcerr |-> "nil",
     ret |-> NilMsg, err |-> "nil", rpcs |-> 0, stores |-> 0]

\* What an operation leaves and returns: the entries, the size counter and
\* the return values.
Outcome(r, c, o, e) ==
    [results |-> r.results, size |-> r.size, cached |-> c, out |-> o,
     err |-> e]

\* A thread that is in no operation of the cache.  key, data, maxAge,
\* afterSize and entry are the local variables of the operation; cached,
\* out and err its return values; serial is what the operation would have
\* left and returned had it run as a whole when it took the lock.
IdleOp ==
    [pc |-> "idle", name |-> "none", arg |-> NilMsg, result |-> NilMsg,
     trailer |-> NoTrailer, key |-> "", data |-> <<>>, maxAge |-> 0,
     afterSize |-> 0, entry |-> ZeroEntry, cached |-> FALSE, out |-> NilMsg,
     err |-> "nil",
     serial |-> Outcome([results |-> <<>>, size |-> 0], FALSE, NilMsg, "nil")]

\* ------------------------------------------------------------- actions
InitCache ==
    /\ results = [k \in {} |-> ZeroEntry]
    /\ size = 0
    /\ now = 0
    /\ last = NoLast
    /\ stored = [t \in {} |-> 0]
    /\ w = [t \in Threads |-> IdleWrapper]
    /\ mu = 0
    /\ ops = [t \in Threads |-> IdleOp]

\* Cache.Get runs (lock to unlock) on the cache.
CallGet(ctx, method, arg) ==
    LET r == Get(ctx, method, arg)
    IN  /\ results' = r.results
        /\ size' = r.size
        /\ last' = [NoLast EXCEPT !.op = "Get", !.cached = r.cached,
                                  !.msg = r.out, !.err = r.err,
                                  !.path = r.path]
        /\ stored' = IF r.path = "expired"
                     THEN MapDelete(stored, Triple(ctx, method, arg))
                     ELSE stored

\* Cache.Store runs (lock to unlock) on the cache.
CallStore(ctx, method, arg, result, trailer) ==
    LET r == Store(ctx, method, arg, result, trailer)
        t == Triple(ctx, method, arg)
    IN  /\ results' = r.results
        /\ size' = r.size
        /\ last' = [NoLast EXCEPT !.op = "Store", !.err = r.err,
                                  !.path = r.path, !.trailer = trailer]
        /\ stored' =
              CASE r.path = "stored" ->
                     MapSet(stored, t,
                            [result |-> result, at |-> now,
                             maxAge |-> getCacheControl(trailer).cc.MaxAge])
                [] r.path = "evicted" -> MapDelete(stored, t)
                [] OTHER -> stored

\* A caller invokes Cache.Get directly.
DoGet(ctx, method, arg) ==
    /\ CallGet(ctx, method, arg)
    /\ UNCHANGED <<config, now, w, mu, ops>>

\* A caller invokes Cache.Store directly.
DoStore(ctx, method, arg, result, trailer) ==
    /\ CallStore(ctx, method, arg, result, trailer)
    /\ UNCHANGED <<config, now, w, mu, ops>>

\* A caller invokes Cache.Clear.
DoClear ==
    /\ results' = Clear.results
    /\ size' = Clear.size
    /\ last' = [NoLast EXCEPT !.op = "Clear", !.path = "cleared",
                              !.dropped = Cardinality(DOMAIN results)]
    /\ stored' = [t \in {} |-> 0]
    /\ UNCHANGED <<config, now, w, mu, ops>>

\* A second passes.
Tick ==
    /\ now < MaxTime
    /\ now' = now + 1
    /\ UNCHANGED <<results, size, config, last, stored, w, mu, ops>>

\* ----------------------------------------------- the engine, called directly
\* One method and one user, requests 1 and 2 (and a nil one), with and
\* without a size bound.
EngineCtx == [user |-> "u", id |-> 1]
EngineMethod == "Test.A"

Init ==
    /\ InitCache
    /\ MaxSize \in MaxSizes
    /\ KeyPart = "nil"
    /\ hasCache = TRUE

Next ==
    \/ \E arg \in Args : DoGet(EngineCtx, EngineMethod, arg)
    \/ \E arg \in Args, result \in Results, trailer \in Trailers :
          DoStore(EngineCtx, EngineMethod, arg, result, trailer)
    \/ DoClear
    \/ Tick

Spec == Init /\ [][Next]_vars

\* ------------------------------------------------- the client wrapper
\* The key the generated method passes to Get and Store.
WrapperMethod == "Test.TestMethod"

\* The client method without the early return on a cache hit.
WGet_IgnoreHit(t, ctx, arg) ==
    /\ w[t].pc = "idle"
    /\ hasCache
    /\ CallGet(ctx, WrapperMethod, arg)
    /\ w' = [w EXCEPT ![t].ctx = ctx, ![t].arg = arg,
                      ![t].got = Get(ctx, WrapperMethod, arg).path,
                      ![t].pc = "rpc"]
    /\ UNCHANGED <<config, now, mu, ops>>

\* Thread t enters the generated client method: with a Cache it calls Get,
\* and returns its error or the cached result; otherwise it goes on to the
\* real RPC.
WGet(t, ctx, arg) ==
    /\ w[t].pc = "idle"
    /\ IF hasCache
       THEN LET r == Get(ctx, WrapperMethod, arg)
                c == [w EXCEPT ![t].ctx = ctx, ![t].arg = arg,
                               ![t].got = r.path]
            IN  /\ CallGet(ctx, WrapperMethod, arg)
                /\ w' = IF r.err # "nil"
                        THEN [c EXCEPT ![t].pc = "returned",
                                       ![t].err = r.err]
                        ELSE IF r.cached
                        THEN [c EXCEPT ![t].pc = "returned",
                                       ![t].ret = r.out]
                        ELSE [c EXCEPT ![t].pc = "rpc"]
       ELSE /\ w' = [w EXCEPT ![t].ctx = ctx, ![t].arg = arg,
                              ![t].pc = "rpc"]
            /\ UNCHANGED <<results, size, last, stored>>
    /\ UNCHANGED <<config, now, mu, ops>>

\* The client method without the return on an RPC error: whatever the RPC
\* gave goes on to Store.
WRpc_StoreOnError(t, result, trailer, err) ==
    /\ w[t].pc = "rpc"
    /\ LET c == [w EXCEPT ![t].rpcs = @ + 1, ![t].rpcerr = err]
       IN  w' = IF hasCache
                THEN [c EXCEPT ![t].pc = "store", ![t].result = result,
                               ![t].trailer = trailer]
                ELSE [c EXCEPT ![t].pc = "returned", ![t].result = result,
                               ![t].trailer = trailer, ![t].ret = result]
    /\ UNCHANGED <<results, size, last, stored, config, now, mu, ops>>

\* The real RPC of thread t completes with an error, or with a result and
\* the trailer the server set; without a Cache the result is returned.
WRpc(t, result, trailer, err) ==
    /\ w[t].pc = "rpc"
    /\ LET c == [w EXCEPT ![t].rpcs = @ + 1, ![t].rpcerr = err]
       IN  w' = IF err # "nil"
                THEN [c EXCEPT ![t].pc = "returned", ![t].err = err]
                ELSE IF hasCache
                THEN [c EXCEPT ![t].pc = "store", ![t].result = result,
                               ![t].trailer = trailer]
                ELSE [c EXCEPT ![t].pc = "returned", ![t].result = result,
                               ![t].trailer = trailer, ![t].ret = result]
    /\ UNCHANGED <<results, size, last, stored, config, now, mu, ops>>

\* A wrapper that drops the result of its RPC instead of storing it when
\* the cache has been cleared since its Get.
WStore_SkipAfterClear(t) ==
    /\ w[t].pc = "store"
    /\ IF last.op = "Clear"
       THEN /\ w' = [w EXCEPT ![t].pc = "returned", ![t].ret = w[t].result]
            /\ UNCHANGED <<results, size, last, stored>>
       ELSE LET r == Store(w[t].ctx, WrapperMethod, w[t].arg, w[t].result,
                           w[t].trailer)
                c == [w EXCEPT ![t].stores = @ + 1, ![t].pc = "returned"]
            IN  /\ CallStore(w[t].ctx, WrapperMethod, w[t].arg, w[t].result,
                             w[t].trailer)
                /\ w' = IF r.err # "nil"
                        THEN [c EXCEPT ![t].err = r.err]
                        ELSE [c EXCEPT ![t].ret = w[t].result]
    /\ UNCHANGED <<config, now, mu, ops>>

\* Thread t stores the result of its RPC and returns it, or the error of
\* Store.
WStore(t) ==
    /\ w[t].pc = "store"
    /\ LET r == Store(w[t].ctx, WrapperMethod, w[t].arg, w[t].result,
                      w[t].trailer)
           c == [w EXCEPT ![t].stores = @ + 1, ![t].pc = "returned"]
       IN  /\ CallStore(w[t].ctx, WrapperMethod, w[t].arg, w[t].result,
                        w[t].trailer)
           /\ w' = IF r.err # "nil"
                   THEN [c EXCEPT ![t].err = r.err]
                   ELSE [c EXCEPT ![t].ret = w[t].result]
    /\ UNCHANGED <<config, now, mu, ops>>

\* The caller of thread t takes the return values.
WDone(t) ==
    /\ w[t].pc = "returned"
    /\ w' = [w EXCEPT ![t] = IdleWrapper]
    /\ UNCHANGED <<results, size, last, stored, config, now, mu, ops>>

\* No other thread is inside a call.
Alone(t) == \A u \in Threads \ {t} : w[u].pc = "idle"

\* Calls made one at a time through the wrapper, with the clock running
\* and the cache cleared now and then.
WrapperCtx == [user |-> "u", id |-> 1]
RpcErrors == {"nil", "ErrRPC"}

InitClient ==
    /\ InitCache
    /\ MaxSize \in MaxSizes
    /\ KeyPart = "nil"
    /\ hasCache \in BOOLEAN

NextClient ==
    \/ \E t \in Threads, arg \in Args : Alone(t) /\ WGet(t, WrapperCtx, arg)
    \/ \E t \in Threads, result \in Results \ {NilMsg}, trailer \in Trailers,
          err \in RpcErrors :
          WRpc(t, result, trailer, err)
    \/ \E t \in Threads : WStore(t)
    \/ \E t \in Threads : WDone(t)
    \/ DoClear
    \/ Tick

SpecClient == InitClient /\ [][NextClient]_vars

\* ------------------------------------------- the wrapper and a handler
\* The durations the handler allows its result to be cached for.
ServerMaxAges == {0 - 1, 0, 2, 90, 3661, 999 * 3600}

\* testServer.TestMethod: sets the cache control and echoes the request.
TestMethod(op, maxAge) ==
    [result |-> op, trailer |-> SetCacheControl([MaxAge |-> maxAge])]

\* The real RPC of thread t is served by the handler, which allows maxAge.
WHandle(t, maxAge) ==
    /\ w[t].pc = "rpc"
    /\ LET r == TestMethod(w[t].arg, maxAge)
       IN  WRpc(t, r.result, r.trailer, "nil")

\* Calls made one at a time through the wrapper to the handler.
InitServer ==
    /\ InitCache
    /\ MaxSize \in MaxSizes
    /\ KeyPart = "nil"
    /\ hasCache = TRUE

NextServer ==
    \/ \E t \in Threads, arg \in Args : Alone(t) /\ WGet(t, WrapperCtx, arg)
    \/ \E t \in Threads, maxAge \in ServerMaxAges : WHandle(t, maxAge)
    \/ \E t \in Threads : WStore(t)
    \/ \E t \in Threads : WDone(t)
    \/ Tick

SpecServer == InitServer /\ [][NextServer]_vars

\* ------------------------------------------- concurrent wrapper calls
\* Both threads call through the wrapper at once, for the same user; the
\* clock stands still.
ConcTrailers == {NoTrailer, [k \in {MaxAgeKey} |-> <<"1", "s">>]}

InitConc ==
    /\ InitCache
    /\ MaxSize \in MaxSizes
    /\ KeyPart = "nil"
    /\ hasCache = TRUE

NextConc ==
    \/ \E t \in Threads, arg \in Args \ {NilMsg} : WGet(t, WrapperCtx, arg)
    \/ \E t \in Threads, result \in Results \ {NilMsg},
          trailer \in ConcTrailers, err \in RpcErrors :
          WRpc(t, result, trailer, err)
    \/ \E t \in Threads : WStore(t)
    \/ \E t \in Threads : WDone(t)
    \/ DoClear

SpecConc == InitConc /\ [][NextConc]_vars

\* ------------------------------ the engine, one statement at a time
\* Thread t calls Get, Store or Clear (name) and comes to its c.mu.Lock().
CallOp(t, name, arg, result, trailer) ==
    /\ ops[t].pc = "idle"
    /\ ops' = [ops EXCEPT ![t] = [IdleOp EXCEPT !.pc = "lock", !.name = name,
                                                !.arg = arg,
                                                !.result = result,
                                                !.trailer = trailer]]
    /\ UNCHANGED <<results, size, config, now, last, stored, w, mu>>

\* What the operation thread t has called leaves and returns when it runs
\* as a whole in the current state.
Serial(t) ==
    CASE ops[t].name = "Get" ->
           LET g == Get(EngineCtx, EngineMethod, ops[t].arg)
           IN  Outcome(g, g.cached, g.out, g.err)
      [] ops[t].name = "Store" ->
           LET r == Store(EngineCtx, EngineMethod, ops[t].arg, ops[t].result,
                          ops[t].trailer)
           IN  Outcome(r, FALSE, NilMsg, r.err)
      [] OTHER -> Outcome(Clear, FALSE, NilMsg, "nil")

\* The first statement after the lock.
FirstStatement(name) ==
    CASE name = "Get" -> "get.lookup"
      [] name = "Store" -> "store.check"
      [] OTHER -> "clear.map"

\* A Lock that does not wait for the mutex to be free.
Lock_NoWait(t) ==
    /\ ops[t].pc = "lock"
    /\ mu' = t
    /\ ops' = [ops EXCEPT ![t].pc = FirstStatement(ops[t].name),
                          ![t].serial = Serial(t)]
    /\ UNCHANGED <<results, size, config, now, last, stored, w>>

\* c.mu.Lock(): thread t takes the mutex once it is free.
Lock(t) ==
    /\ ops[t].pc = "lock"
    /\ mu = 0
    /\ mu' = t
    /\ ops' = [ops EXCEPT ![t].pc = FirstStatement(ops[t].name),
                          ![t].serial = Serial(t)]
    /\ UNCHANGED <<results, size, config, now, last, stored, w>>

\* Get, lines 145-172: the key, the lookup, the expiry test and, for a
\* live entry, its deserialization.
GetLookup(t) ==
    /\ ops[t].pc = "get.lookup"
    /\ LET ck == cacheKey(EngineCtx, EngineMethod, ops[t].arg)
           entry == MapIndex(results, ck.key)
           u == Unmarshal(entry.protoBytes)
       IN  ops' = [ops EXCEPT ![t] =
                IF ck.err # "nil"
                THEN [@ EXCEPT !.pc = "unlock", !.err = ck.err]
                ELSE IF ck.key \notin DOMAIN results
                THEN [@ EXCEPT !.pc = "unlock", !.key = ck.key]
                ELSE IF now > entry.expiry
                THEN [@ EXCEPT !.pc = "get.delete", !.key = ck.key,
                               !.entry = entry]
                ELSE IF u.err # "nil"
                THEN [@ EXCEPT !.pc = "unlock", !.key = ck.key,
                               !.entry = entry, !.err = u.err]
                ELSE [@ EXCEPT !.pc = "unlock", !.key = ck.key,
                               !.entry = entry, !.cached = TRUE,
                               !.out = u.msg]]
    /\ UNCHANGED <<results, size, config, now, last, stored, w, mu>>

\* Get, line 153: delete(c.results, cacheKey)
GetDelete(t) ==
    /\ ops[t].pc = "get.delete"
    /\ results' = MapDelete(results, ops[t].key)
    /\ ops' = [ops EXCEPT ![t].pc = "get.size"]
    /\ UNCHANGED <<size, config, now, last, stored, w, mu>>

\* Get, line 154: c.size -= uint64(len(entry.protoBytes))
GetSize(t) ==
    /\ ops[t].pc = "get.size"
    /\ size' = size - Len(ops[t].entry.protoBytes)
    /\ ops' = [ops EXCEPT ![t].pc = "unlock"]
    /\ UNCHANGED <<results, config, now, last, stored, w, mu>>

\* Store, lines 185-216: serialization, the key, the directive, afterSize
\* and the test against MaxSize.
StoreCheck(t) ==
    /\ ops[t].pc = "store.check"
    /\ LET m == Marshal(ops[t].result)
           ck == cacheKey(EngineCtx, EngineMethod, ops[t].arg)
           g == getCacheControl(ops[t].trailer)
           afterSize == AfterSize(ck.key, m.data)
       IN  ops' = [ops EXCEPT ![t] =
                IF m.err # "nil"
                THEN [@ EXCEPT !.pc = "unlock", !.err = m.err]
                ELSE IF ck.err # "nil"
                THEN [@ EXCEPT !.pc = "unlock", !.err = ck.err]
                ELSE IF g.err # "nil"
                THEN [@ EXCEPT !.pc = "unlock", !.err = g.err]
                ELSE IF g.cc.nil \/ ~cacheable(g.cc)
                THEN [@ EXCEPT !.pc = "unlock"]
                ELSE IF MaxSize # 0 /\ U64Gt(afterSize, MaxSize)
                THEN [@ EXCEPT !.pc = IF ck.key \in DOMAIN results
                                      THEN "store.delete" ELSE "unlock",
                               !.key = ck.key, !.data = m.data,
                               !.maxAge = g.cc.MaxAge,
                               !.afterSize = afterSize]
                ELSE [@ EXCEPT !.pc = "store.insert",
                               !.key = ck.key, !.data = m.data,
                               !.maxAge = g.cc.MaxAge,
                               !.afterSize = afterSize]]
    /\ UNCHANGED <<results, size, config, now, last, stored, w, mu>>

\* Store, line 212: delete(c.results, cacheKey)
StoreDelete(t) ==
    /\ ops[t].pc = "store.delete"
    /\ results' = MapDelete(results, ops[t].key)
    /\ ops' = [ops EXCEPT ![t].pc = "store.size"]
    /\ UNCHANGED <<size, config, now, last, stored, w, mu>>

\* Store, line 213: c.size -= uint64(len(c.results[cacheKey].protoBytes))
StoreSize(t) ==
    /\ ops[t].pc = "store.size"
    /\ size' = size - Len(MapIndex(results, ops[t].key).protoBytes)
    /\ ops' = [ops EXCEPT ![t].pc = "unlock"]
    /\ UNCHANGED <<results, config, now, last, stored, w, mu>>

\* Store, lines 218-222: the entry is written.
StoreInsert(t) ==
    /\ ops[t].pc = "store.insert"
    /\ results' = MapSet(results, ops[t].key,
                         [protoBytes |-> ops[t].data,
                          cc |-> [MaxAge |-> ops[t].maxAge],
                          expiry |-> now + ops[t].maxAge])
    /\ ops' = [ops EXCEPT ![t].pc = "store.after"]
    /\ UNCHANGED <<size, config, now, last, stored, w, mu>>

\* Store, line 223: c.size = afterSize
StoreAfter(t) ==
    /\ ops[t].pc = "store.after"
    /\ size' = ops[t].afterSize
    /\ ops' = [ops EXCEPT ![t].pc = "unlock"]
    /\ UNCHANGED <<results, config, now, last, stored, w, mu>>

\* Clear, line 234: c.results = map[string]cacheEntry{}
ClearMap(t) ==
    /\ ops[t].pc = "clear.map"
    /\ results' = [k \in {} |-> ZeroEntry]
    /\ ops' = [ops EXCEPT ![t].pc = "clear.size"]
    /\ UNCHANGED <<size, config, now, last, stored, w, mu>>

\* Clear, line 235: c.size = 0
ClearSize(t) ==
    /\ ops[t].pc = "clear.size"
    /\ size' = 0
    /\ ops' = [ops EXCEPT ![t].pc = "unlock"]
    /\ UNCHANGED <<results, config, now, last, stored, w, mu>>

\* An Unlock that is not deferred: an operation that returns an error
\* returns with the mutex still locked.
Unlock_KeepOnError(t) ==
    /\ ops[t].pc = "unlock"
    /\ mu' = IF ops[t].err # "nil" THEN mu ELSE 0
    /\ ops' = [ops EXCEPT ![t] = IdleOp]
    /\ UNCHANGED <<results, size, config, now, last, stored, w>>

\* c.mu.Unlock(), deferred in Get and Store: the operation returns.
Unlock(t) ==
    /\ ops[t].pc = "unlock"
    /\ mu' = 0
    /\ ops' = [ops EXCEPT ![t] = IdleOp]
    /\ UNCHANGED <<results, size, config, now, last, stored, w>>

\* Both threads call Get, Store and Clear for one key of a cache of two
\* bytes.  The clock is read inside the operations only, so a second that
\* passes while the mutex is held is taken to pass before it is locked.
LockArgs == {1, NilMsg}
LockTrailers ==
    {NoTrailer, [k \in {MaxAgeKey} |-> <<"1", "s">>],
     [k \in {MaxAgeKey} |-> <<"2">>]}
LockMaxSizes == {2}

InitLock ==
    /\ InitCache
    /\ MaxSize \in LockMaxSizes
    /\ KeyPart = "nil"
    /\ hasCache = TRUE

NextLock ==
    \/ \E t \in Threads, arg \in LockArgs :
          CallOp(t, "Get", arg, NilMsg, NoTrailer)
    \/ \E t \in Threads, arg \in LockArgs, result \in Results,
          trailer \in LockTrailers :
          CallOp(t, "Store", arg, result, trailer)
    \/ \E t \in Threads : CallOp(t, "Clear", NilMsg, NilMsg, NoTrailer)
    \/ \E t \in Threads : Lock(t)
    \/ \E t \in Threads : GetLookup(t)
    \/ \E t \in Threads : GetDelete(t)
    \/ \E t \in Threads : GetSize(t)
    \/ \E t \in Threads : StoreCheck(t)
    \/ \E t \in Threads : StoreDelete(t)
    \/ \E t \in Threads : StoreSize(t)
    \/ \E t \in Threads : StoreInsert(t)
    \/ \E t \in Threads : StoreAfter(t)
    \/ \E t \in Threads : ClearMap(t)
    \/ \E t \in Threads : ClearSize(t)
    \/ \E t \in Threads : Unlock(t)
    \/ mu = 0 /\ Tick

SpecLock == InitLock /\ [][NextLock]_vars

\* The statements of thread t between its Lock and its return.
Body(t) ==
    \/ GetLookup(t) \/ GetDelete(t) \/ GetSize(t)
    \/ StoreCheck(t) \/ StoreDelete(t) \/ StoreSize(t)
    \/ StoreInsert(t) \/ StoreAfter(t)
    \/ ClearMap(t) \/ ClearSize(t)
    \/ Unlock(t)

\* Fair scheduling: a thread that can run its next statement gets to run
\* it, and a thread waiting in c.mu.Lock() is not passed over for ever
\* while the mutex keeps becoming free (sync.Mutex hands the mutex to a
\* waiter that has waited long).  Nothing obliges a thread to call an
\* operation, nor the clock to advance.
FairScheduling ==
    \A t \in Threads : WF_vars(Body(t)) /\ SF_vars(Lock(t))

SpecLockFair == InitLock /\ [][NextLock]_vars /\ FairScheduling

\* ------------------------------------------------- properties of the engine
\* The sum of the payload lengths held in a results map.
RECURSIVE SumLen(_)
SumLen(m) ==
    IF DOMAIN m = {} THEN 0
    ELSE LET k == CHOOSE x \in DOMAIN m : TRUE
         IN  Len(m[k].protoBytes) + SumLen(MapDelete(m, k))

EngineKey(arg) == cacheKey(EngineCtx, EngineMethod, arg).key
EngineTriple(arg) == Triple(EngineCtx, EngineMethod, arg)
RealArgs == Args \ {NilMsg}
RealResults == Results \ {NilMsg}
Trailer(v) == [k \in {MaxAgeKey} |-> v]
\* Trailers with a positive max-age, and trailers with none or a non-positive
\* one.
CacheableTrailers == {Trailer(<<"1", "s">>), Trailer(<<"2", "s">>)}
NonCacheableTrailers ==
    {NoTrailer, Trailer(<<"0", "s">>), Trailer(<<"-", "1", "s">>)}
BadTrailers == {Trailer(<<"2">>)}

\* C1: whenever no operation is running, the size counter equals the sum
\* of the payload lengths of the entries in the results map.
C1_SizeEqualsSum == size = SumLen(results)

\* C2: Get never returns cached=true for an entry whose expiry is strictly
\* earlier than the time at which the Get runs.
C2_NoExpiredHit ==
    [][\A arg \in Args :
         (DoGet(EngineCtx, EngineMethod, arg) /\ last'.cached)
         => /\ EngineKey(arg) \in DOMAIN results
            /\ ~(results[EngineKey(arg)].expiry < now)
            /\ EngineTriple(arg) \in DOMAIN stored
            /\ ~(stored[EngineTriple(arg)].at
                   + stored[EngineTriple(arg)].maxAge < now)]_vars

\* A Get has just found an expired entry and reported a miss.
C2_Witness ==
    last.op = "Get" /\ last.path = "expired" /\ ~last.cached

\* C3: after an accepted Store with MaxAge d at time t for a key, with the
\* entry not touched since, a Get before t+d hits with exactly the stored
\* result; a Get after t+d misses with a nil error, removes the entry and
\* reduces the size counter by exactly the length of its payload.
C3_TTL ==
    [][\A arg \in RealArgs :
         (EngineTriple(arg) \in DOMAIN stored
            /\ DoGet(EngineCtx, EngineMethod, arg))
         => LET s == stored[EngineTriple(arg)]
            IN  /\ now < s.at + s.maxAge
                   => /\ last'.cached
                      /\ last'.err = "nil"
                      /\ last'.msg = s.result
                /\ now > s.at + s.maxAge
                   => /\ ~last'.cached
                      /\ last'.err = "nil"
                      /\ EngineKey(arg) \in DOMAIN results
                      /\ EngineKey(arg) \notin DOMAIN results'
                      /\ size' = size - Len(Marshal(s.result).data)]_vars

\* A Get has purged an expired entry with a payload, another entry being
\* left in the cache.
C3_Witness ==
    /\ last.op = "Get" /\ last.path = "expired"
    /\ results # <<>>
    /\ size > 0

\* C4: with MaxSize = N # 0, neither the size counter nor the sum of the
\* payload lengths held in the results map ever exceeds N.
C4_SizeBound ==
    MaxSize # 0 => (~U64Gt(size, MaxSize) /\ SumLen(results) <= MaxSize)

\* A Store has just been turned down for exceeding MaxSize.
C4_Witness ==
    MaxSize # 0 /\ last.op = "Store" /\ last.path = "rejected"

\* Whether storing result under the key of arg would take the size over
\* MaxSize.
WouldExceed(arg, result) ==
    /\ MaxSize # 0
    /\ size
         - (IF EngineKey(arg) \in DOMAIN results
            THEN Len(results[EngineKey(arg)].protoBytes) ELSE 0)
         + Len(Marshal(result).data) > MaxSize

\* C5 as claimed: a Store that would exceed MaxSize leaves the entry of its
\* key as it was (the same entry if there was one, none if there was none).
C5_RejectedStoreKeepsEntry ==
    [][\A arg \in RealArgs, result \in RealResults :
         (/\ last'.op = "Store"
          /\ last'.trailer \in CacheableTrailers
          /\ WouldExceed(arg, result)
          /\ DoStore(EngineCtx, EngineMethod, arg, result, last'.trailer))
         => IF EngineKey(arg) \in DOMAIN results
            THEN /\ EngineKey(arg) \in DOMAIN results'
                 /\ results'[EngineKey(arg)] = results[EngineKey(arg)]
            ELSE EngineKey(arg) \notin DOMAIN results']_vars

\* C5 amended: a Store that would exceed MaxSize never writes its result:
\* after it its key holds no entry, the entry that occupied the key before
\* (if any) having been removed.
C5_RejectedStoreLeavesKeyEmpty ==
    [][\A arg \in RealArgs, result \in RealResults :
         (/\ last'.op = "Store"
          /\ last'.trailer \in CacheableTrailers
          /\ WouldExceed(arg, result)
          /\ DoStore(EngineCtx, EngineMethod, arg, result, last'.trailer))
         => /\ EngineKey(arg) \notin DOMAIN results'
            /\ last'.err = "nil"]_vars

\* A Store over MaxSize has just removed the entry that occupied its key.
C5_Witness ==
    MaxSize # 0 /\ last.op = "Store" /\ last.path = "evicted"

\* C6: a Store whose trailer has no directive, or one with MaxAge <= 0,
\* changes no entry and not the size counter; a Get that follows hits only
\* an entry stored earlier and still live, and returns that entry's result.
C6_NonCacheableStoreIsNoOp ==
    /\ [][(last'.op = "Store" /\ last'.trailer \in NonCacheableTrailers)
            => (results' = results /\ size' = size)]_vars
    /\ [](  (last.op = "Store" /\ last.trailer \in NonCacheableTrailers)
          => \A a \in Args :
               LET g == Get(EngineCtx, EngineMethod, a)
               IN  g.cached
                   => /\ EngineTriple(a) \in DOMAIN stored
                      /\ g.out = stored[EngineTriple(a)].result
                      /\ now <= stored[EngineTriple(a)].at
                                  + stored[EngineTriple(a)].maxAge)

\* A Store with a non-cacheable trailer has just returned while an earlier
\* entry is in the cache.
C6_Witness ==
    last.op = "Store" /\ last.path = "nocache" /\ results # <<>>

\* The errors of proto.Marshal and proto.Unmarshal.
SerializationErrors == {"ErrNil", "ErrUnmarshal"}

C13_NonCacheableStoreReturnsNil ==
    [][(last'.op = "Store" /\ last'.trailer \in NonCacheableTrailers)
         => last'.err = "nil"]_vars

\* C13 amended: a Store whose trailer has no directive, or one with
\* MaxAge <= 0, changes nothing and returns nil if the result and the
\* request can be serialized; otherwise it returns the error of
\* serializing the result or, the result being fine, the request.
C13_NonCacheableStoreReturnsNilOrSerializationError ==
    [][\A a \in Args, r \in Results :
         (/\ last'.op = "Store"
          /\ last'.trailer \in NonCacheableTrailers
          /\ DoStore(EngineCtx, EngineMethod, a, r, last'.trailer))
         => /\ last'.err = IF Marshal(r).err # "nil" THEN Marshal(r).err
                           ELSE Marshal(a).err
            /\ (a # NilMsg /\ r # NilMsg) => last'.path = "nocache"
            /\ results' = results /\ size' = size]_vars

\* A Store without a cacheable directive has just returned the error of
\* serializing a nil message, an entry being in the cache.
C13_Witness ==
    /\ last.op = "Store" /\ last.trailer \in NonCacheableTrailers
    /\ last.err = "ErrNil"
    /\ results # <<>>

\* Whether result fits under the key of arg, going by the payloads that
\* the results map holds.
FitsBySum(arg, result) ==
    \/ MaxSize = 0
    \/ SumLen(results)
         - (IF EngineKey(arg) \in DOMAIN results
            THEN Len(results[EngineKey(arg)].protoBytes) ELSE 0)
         + Len(Marshal(result).data) <= MaxSize

\* C14: a Store with a cacheable directive is accepted whenever MaxSize = 0
\* or the payloads held, less the one at its key, plus the new one come to
\* at most MaxSize; an accepted Store puts the new payload with
\* expiry = now + MaxAge at its key, and a Get right after it hits with
\* the new result.
C14_StoreAcceptedWhenItFits ==
    [][\A a \in RealArgs, r \in RealResults :
         (/\ last'.op = "Store"
          /\ last'.trailer \in CacheableTrailers
          /\ DoStore(EngineCtx, EngineMethod, a, r, last'.trailer))
         => /\ FitsBySum(a, r) => last'.path = "stored"
            /\ last'.path = "stored"
               => /\ results' =
                       MapSet(results, EngineKey(a),
                              [protoBytes |-> Marshal(r).data,
                               cc |-> [MaxAge |->
                                 getCacheControl(last'.trailer).cc.MaxAge],
                               expiry |->
                                 now + getCacheControl(last'.trailer).cc.MaxAge])
                  /\ Get(EngineCtx, EngineMethod, a)'.cached
                  /\ Get(EngineCtx, EngineMethod, a)'.out = r]_vars

\* C15: a Store turned down for exceeding MaxSize stores nothing, returns
\* nil and removes the entry at its own key, if any; the entry of every
\* other key stays as it was.
C15_RejectedStoreTouchesOwnKeyOnly ==
    [][\A a \in RealArgs, r \in RealResults :
         (/\ last'.op = "Store"
          /\ last'.path \in {"rejected", "evicted"}
          /\ DoStore(EngineCtx, EngineMethod, a, r, last'.trailer))
         => /\ last'.err = "nil"
            /\ EngineKey(a) \notin DOMAIN results'
            /\ DOMAIN results' = DOMAIN results \ {EngineKey(a)}
            /\ \A k \in DOMAIN results \ {EngineKey(a)} :
                  results'[k] = results[k]]_vars

\* A Store over MaxSize has just removed the occupant of its key and left
\* the entry of the other key.
C15_Witness ==
    /\ MaxSize # 0 /\ last.op = "Store" /\ last.path = "evicted"
    /\ Cardinality(DOMAIN results) = 1

\* C18: a Get changes the cache only when it finds an expired entry at its
\* own key, and then removes that entry alone and takes its length off the
\* size counter; a hit, a miss on an absent key and a failing Get leave
\* every entry, expiries included, and the size counter as they were.
C18_GetFrame ==
    [][\A a \in Args :
         DoGet(EngineCtx, EngineMethod, a)
         => IF a # NilMsg /\ EngineKey(a) \in DOMAIN results
               /\ results[EngineKey(a)].expiry < now
            THEN /\ last'.path = "expired"
                 /\ results' = MapDelete(results, EngineKey(a))
                 /\ size' = size - Len(results[EngineKey(a)].protoBytes)
            ELSE /\ last'.path \in {"hit", "miss", "error"}
                 /\ results' = results
                 /\ size' = size]_vars

\* A Get has just purged the expired entry of its key while the expired
\* entry of the other key stays in the cache.
C18_Witness ==
    /\ last.op = "Get" /\ last.path = "expired"
    /\ \E k \in DOMAIN results : results[k].expiry < now

\* C21: the size counter never wraps below zero: it is at least the sum of
\* the payload lengths held in the results map, and so at least the length
\* that Get takes off it for an expired entry and that Store takes off it
\* for the entry it replaces.
C21_SizeNeverWraps ==
    /\ [](size >= 0 /\ size >= SumLen(results))
    /\ [](\A k \in DOMAIN results : size >= Len(results[k].protoBytes))
    /\ [][\A a \in RealArgs :
            (DoGet(EngineCtx, EngineMethod, a) /\ last'.path = "expired")
            => /\ size >= Len(results[EngineKey(a)].protoBytes)
               /\ size' >= 0]_vars
    /\ [][(last'.op = "Store"
             /\ last'.path \in {"stored", "rejected", "evicted"})
            => (size' >= 0 /\ size' >= SumLen(results'))]_vars

\* A Get has just taken the length of the last entry off a size counter
\* that counted more than the cache held: no entry is left and the counter
\* is above zero.
C21_Witness ==
    /\ last.op = "Get" /\ last.path = "expired"
    /\ results = <<>>
    /\ size = 2

\* C9: Clear leaves the results map empty and the size counter 0; a Get
\* right after it misses; a Clear right after it changes nothing.
C9_Clear ==
    [][/\ DoClear => (results' = <<>> /\ size' = 0)
       /\ \A arg \in Args :
            (last.op = "Clear" /\ DoGet(EngineCtx, EngineMethod, arg))
            => (~last'.cached /\ results' = <<>> /\ size' = 0)
       /\ (last.op = "Clear" /\ DoClear)
            => (results' = results /\ size' = size)]_vars

\* A Clear has just removed two entries.
C9_Witness ==
    last.op = "Clear" /\ last.dropped = 2 /\ results = <<>> /\ size = 0

\* ------------------------------------------- the engine, over many keys
\* Two methods, two requests and three contexts of two users, with and
\* without KeyPart; every result is cacheable and the clock stands still.
KeysTrailer == [k \in {MaxAgeKey} |-> <<"2", "s">>]

InitKeys ==
    /\ InitCache
    /\ MaxSize \in MaxSizes
    /\ KeyPart \in {"nil", "user"}
    /\ hasCache = TRUE

NextKeys ==
    \/ \E ctx \in Ctxs, method \in Methods, arg \in Args \ {NilMsg} :
          DoGet(ctx, method, arg)
    \/ \E ctx \in Ctxs, method \in Methods, arg \in Args \ {NilMsg},
          result \in Results \ {NilMsg} :
          DoStore(ctx, method, arg, result, KeysTrailer)
    \/ DoClear

SpecKeys == InitKeys /\ [][NextKeys]_vars

\* C7: two calls address the same entry exactly when they agree in method,
\* serialized request and partition key, and a Get hits only with the
\* result of the last accepted Store made for its own triple.
C7_KeysIsolate ==
    /\ \A c1 \in Ctxs, c2 \in Ctxs, m1 \in Methods, m2 \in Methods,
          a1 \in RealArgs, a2 \in RealArgs :
          (Triple(c1, m1, a1) = Triple(c2, m2, a2))
          <=> (cacheKey(c1, m1, a1).key = cacheKey(c2, m2, a2).key)
    /\ \A c \in Ctxs, m \in Methods, a \in RealArgs :
          LET g == Get(c, m, a)
          IN  g.cached
              => /\ Triple(c, m, a) \in DOMAIN stored
                 /\ g.out = stored[Triple(c, m, a)].result

\* A Get has just hit while two users hold different results for the same
\* method and request.
C7_Witness ==
    /\ KeyPart = "user"
    /\ last.op = "Get" /\ last.cached
    /\ \E t1 \in DOMAIN stored, t2 \in DOMAIN stored :
          /\ t1[1] = t2[1] /\ t1[2] = t2[2] /\ t1[3] # t2[3]
          /\ stored[t1].result # stored[t2].result

\* ------------------------------------------ properties of the client wrapper
\* Thread t makes the step of its call that runs Get, and the one that
\* runs Store.
GetStep(t) == w[t].pc = "idle" /\ w'[t].pc # "idle" /\ hasCache
StoreStep(t) == w[t].pc = "store" /\ w'[t].pc = "returned"
WrapperTriple(t) == Triple(w[t].ctx, WrapperMethod, w[t].arg)

\* C8 as claimed: a call whose Get hits returns the cached result without
\* invoking the RPC; a call whose Get misses invokes the RPC exactly once,
\* calls Store and returns the real result.
C8_MissAlwaysStoresAndReturns ==
    \A t \in Threads :
      (hasCache /\ w[t].pc = "returned")
      => /\ w[t].got = "hit"
            => (w[t].rpcs = 0 /\ w[t].err = "nil")
         /\ w[t].got \in {"miss", "expired"}
            => /\ w[t].rpcs = 1
               /\ w[t].stores = 1
               /\ w[t].err = "nil"
               /\ w[t].ret = w[t].result

\* C8 amended: a call whose Get hits returns the cached result without
\* invoking the RPC or Store; a call whose Get misses invokes the RPC
\* exactly once; if the RPC fails its error is returned and Store is not
\* called; otherwise the result and the captured trailer are passed to
\* Store once, and the call returns the real result, or the error of Store
\* if it returns one.
C8_WrapperCalls ==
    /\ [][\A t \in Threads :
            /\ GetStep(t)
               => /\ last'.op = "Get"
                  /\ last'.cached
                     => /\ w'[t].pc = "returned"
                        /\ w'[t].got = "hit"
                        /\ w'[t].ret = last'.msg
                        /\ w'[t].err = "nil"
                  /\ (~last'.cached /\ last'.err = "nil")
                     => (w'[t].pc = "rpc" /\ w'[t].got \in {"miss", "expired"})
            /\ StoreStep(t)
               => /\ last'.op = "Store"
                  /\ last'.trailer = w[t].trailer
                  /\ last'.path = "stored"
                     => stored'[WrapperTriple(t)].result = w[t].result
                  /\ w'[t].err = last'.err]_vars
    /\ [](\A t \in Threads :
           (hasCache /\ w[t].pc = "returned")
           => /\ w[t].got = "hit"
                 => (w[t].rpcs = 0 /\ w[t].stores = 0 /\ w[t].err = "nil")
              /\ w[t].got \in {"miss", "expired"}
                 => /\ w[t].rpcs = 1
                    /\ w[t].rpcerr # "nil"
                       => /\ w[t].stores = 0
                          /\ w[t].err = w[t].rpcerr
                          /\ w[t].ret = NilMsg
                    /\ w[t].rpcerr = "nil"
                       => /\ w[t].stores = 1
                          /\ w[t].err = "nil" => w[t].ret = w[t].result
                          /\ w[t].err # "nil" => w[t].ret = NilMsg)

\* A call has been served from the cache, which holds the entries of two
\* earlier calls that missed.
C8_Witness ==
    \E t \in Threads :
      /\ hasCache
      /\ w[t].pc = "returned" /\ w[t].got = "hit" /\ w[t].ret = 200
      /\ Cardinality(DOMAIN results) = 2

\* Thread t makes the step of its call in which the real RPC completes.
RpcStep(t) == w[t].pc = "rpc" /\ w'[t].pc # "rpc"

\* C19: when the real RPC of a call that missed returns an error, the call
\* returns that error, Store is not called and the entries and the size
\* counter stay as they were; what a later call is served from the cache
\* is always the result of a Store, which only calls whose RPC succeeded
\* make.
C19_RpcErrorPropagates ==
    /\ [][\A t \in Threads :
            (RpcStep(t) /\ w'[t].rpcerr # "nil")
            => /\ w'[t].pc = "returned"
               /\ w'[t].err = w'[t].rpcerr
               /\ w'[t].ret = NilMsg
               /\ w'[t].stores = 0
               /\ results' = results /\ size' = size
               /\ stored' = stored]_vars
    /\ [](\A t \in Threads :
            /\ w[t].rpcerr # "nil"
               => (w[t].pc = "returned" /\ w[t].stores = 0)
            /\ w[t].stores > 0 => (w[t].rpcs = 1 /\ w[t].rpcerr = "nil"))
    /\ [](\A a \in RealArgs :
            LET g == Get(WrapperCtx, WrapperMethod, a)
                tr == Triple(WrapperCtx, WrapperMethod, a)
            IN  g.cached => (tr \in DOMAIN stored /\ g.out = stored[tr].result))

\* A call that missed has returned the error of its RPC while the cache
\* holds the entry of an earlier call.
C19_Witness ==
    \E t \in Threads :
      /\ hasCache
      /\ w[t].pc = "returned" /\ w[t].got \in {"miss", "expired"}
      /\ w[t].err = "ErrRPC" /\ w[t].stores = 0
      /\ results # <<>>

\* C10: a trailer without the cache-control key is no directive: Store
\* returns nil and caches nothing.  A trailer whose cache-control value
\* does not parse makes Store return an error, which the wrapper returns
\* as the error of the call, and no entry is created or changed.
C10_TrailerDecoding ==
    /\ getCacheControl(NoTrailer) = [err |-> "nil", cc |-> NilCC]
    /\ [][\A t \in Threads :
            StoreStep(t)
            => /\ w[t].trailer = NoTrailer
                  => /\ last'.err = "nil"
                     /\ w'[t].err = "nil"
                     /\ results' = results /\ size' = size
               /\ w[t].trailer \in BadTrailers
                  => /\ last'.err # "nil"
                     /\ w'[t].err = last'.err
                     /\ w'[t].ret = NilMsg
                     /\ results' = results /\ size' = size]_vars

\* A call has returned the error of an unparsable trailer while the cache
\* holds an entry.
C10_Witness ==
    \E t \in Threads :
      /\ w[t].pc = "returned"
      /\ w[t].trailer \in BadTrailers
      /\ w[t].err = "ErrDuration"
      /\ results # <<>>

\* ------------------------------------------ properties of the codec
\* C12: the key and value that SetCacheControl writes are those that
\* getCacheControl reads: every directive with MaxAge d that a handler sets
\* is decoded with the same MaxAge d, and Store decides on the decoded
\* value whether and for how long to cache.
C12_CodecRoundTrip ==
    /\ [](\A d \in ServerMaxAges :
            getCacheControl(SetCacheControl([MaxAge |-> d]))
              = [err |-> "nil", cc |-> [nil |-> FALSE, MaxAge |-> d]])
    /\ [][\A t \in Threads, d \in ServerMaxAges :
            (StoreStep(t) /\ w[t].trailer = SetCacheControl([MaxAge |-> d]))
            => /\ last'.err = "nil"
               /\ d <= 0 => (last'.path = "nocache" /\ results' = results)
               /\ d > 0 => last'.path \in {"stored", "rejected", "evicted"}
               /\ last'.path = "stored"
                  => LET e == results'[cacheKey(w[t].ctx, WrapperMethod,
                                                w[t].arg).key]
                     IN  e.cc.MaxAge = d /\ e.expiry = now + d]_vars

\* A call has stored a result that its handler allowed to be cached for
\* 1h1m1s.
C12_Witness ==
    \E t \in Threads :
      /\ w[t].pc = "returned"
      /\ w[t].trailer = [k \in {MaxAgeKey} |->
                           <<"1", "h", "1", "m", "1", "s">>]
      /\ last.op = "Store" /\ last.path = "stored"
      /\ \E k \in DOMAIN results : results[k].expiry = now + 3661

\* ------------------------------------ properties of concurrent calls
\* The key of the call thread t is in.
WrapperKey(t) == cacheKey(w[t].ctx, WrapperMethod, w[t].arg).key

\* Thread t is about to store while thread u, whose call for the same
\* request overlapped with it, has just stored: both missed, both were
\* given a cacheable result, and the Store of u was the last operation on
\* the cache.
SecondOfTwoMisses(t, u) ==
    /\ t # u
    /\ w[t].pc = "store" /\ w[t].got = "miss"
    /\ w[u].pc = "returned" /\ w[u].got = "miss" /\ w[u].stores = 1
    /\ w[u].arg = w[t].arg /\ w[u].ctx = w[t].ctx
    /\ w[t].trailer \in CacheableTrailers
    /\ w[u].trailer \in CacheableTrailers
    /\ last.op = "Store"

\* C16: two overlapping calls for the same key that both miss each invoke
\* the RPC and each call Store; when both are done the key holds at most
\* one entry, with the payload of the Store that ran last, and the size
\* counter, which equalled the sum of the payload lengths before that
\* Store, equals it after.
C16_ConcurrentMisses ==
    [][\A t \in Threads, u \in Threads :
         (SecondOfTwoMisses(t, u) /\ StoreStep(t) /\ size = SumLen(results))
         => /\ w[u].rpcs = 1 /\ w'[t].rpcs = 1
            /\ w'[t].stores = 1
            /\ WrapperKey(t) \in DOMAIN results'
               => results'[WrapperKey(t)].protoBytes
                    = Marshal(w[t].result).data
            /\ size' = SumLen(results')]_vars

\* The payload under each key of a results map.
Payloads(m) == [k \in DOMAIN m |-> m[k].protoBytes]

\* Thread t is about to make the Store that thread u has just made: the
\* same method, user, request, result and cacheable directive, with no
\* operation on the cache in between.
SameStoreAgain(t, u) ==
    /\ t # u
    /\ w[t].pc = "store"
    /\ w[u].pc = "returned" /\ w[u].stores = 1
    /\ w[u].arg = w[t].arg /\ w[u].ctx = w[t].ctx
    /\ w[u].result = w[t].result
    /\ w[u].trailer = w[t].trailer
    /\ w[t].trailer \in CacheableTrailers
    /\ last.op = "Store"

\* C20: a Store with a cacheable directive, made again right after itself
\* with the same method, request, result and directive, leaves the same
\* keys, the same payloads and the same size counter as the first one did,
\* and returns what the first returned.
C20_StoreIdempotent ==
    [][\A t \in Threads, u \in Threads :
         (SameStoreAgain(t, u) /\ StoreStep(t))
         => /\ Payloads(results') = Payloads(results)
            /\ size' = size
            /\ last'.err = last.err
            /\ last'.path \in {"stored", "rejected"}]_vars

\* The same Store has been made twice in a row and has replaced the entry
\* of its key, the other key holding an entry too.
C20_Witness ==
    \E t \in Threads, u \in Threads :
      /\ t # u
      /\ w[t].pc = "returned" /\ w[t].stores = 1
      /\ w[u].pc = "returned" /\ w[u].stores = 1
      /\ w[u].arg = w[t].arg /\ w[u].result = w[t].result
      /\ w[u].trailer = w[t].trailer
      /\ w[t].trailer \in CacheableTrailers
      /\ last.op = "Store" /\ last.path = "stored"
      /\ Cardinality(DOMAIN results) = 2

\* Thread t missed and was given the result of its RPC before the Clear
\* that was the last operation on the cache: its Store comes after that
\* Clear has returned.
StoreAfterClear(t) ==
    /\ w[t].pc = "store"
    /\ last.op = "Clear"

\* C22 as claimed: the result of an RPC that a wrapper call issued before
\* a Clear is never inserted after that Clear has returned.
C22_NoStoreOfEarlierRpcAfterClear ==
    [][\A t \in Threads :
         (StoreAfterClear(t) /\ StoreStep(t)) => results' = results]_vars

\* C22: Clear leaves the cache empty with a size counter of zero, and the
\* cache gets its first entry after that only by the Store of a wrapper
\* call; but that call may have missed and issued its RPC before the
\* Clear: its Store, coming after the Clear, inserts the result under the
\* key of its request whenever the directive is cacheable.
C22_ClearDoesNotCancelStores ==
    /\ [][DoClear => (results' = <<>> /\ size' = 0)]_vars
    /\ [][(results = <<>> /\ results' # <<>>)
            => \E t \in Threads :
                 /\ StoreStep(t)
                 /\ last'.op = "Store" /\ last'.path = "stored"
                 /\ Payloads(results')
                       = (WrapperKey(t) :> Marshal(w[t].result).data)]_vars
    /\ [][\A t \in Threads :
            (StoreAfterClear(t) /\ StoreStep(t)
               /\ w[t].trailer \in CacheableTrailers)
            => /\ last'.op = "Store" /\ last'.path = "stored"
               /\ Payloads(results')
                     = (WrapperKey(t) :> Marshal(w[t].result).data)
               /\ size' = Len(Marshal(w[t].result).data)]_vars

\* A Clear that dropped an entry has returned while the call of thread t,
\* which missed before it, holds the cacheable result of its RPC and is
\* about to store it into the empty cache.
C22_Witness ==
    \E t \in Threads :
      /\ StoreAfterClear(t)
      /\ w[t].got = "miss"
      /\ w[t].trailer \in CacheableTrailers
      /\ last.dropped = 1
      /\ results = <<>> /\ size = 0

\* ------------------------------------------ properties of the locking
\* Thread t is between the Lock and the Unlock of an operation.
InCritical(t) == ops[t].pc \notin {"idle", "lock"}

\* C17: a thread is between Lock and Unlock of Get, Store or Clear only
\* while it holds the mutex, so no two threads are there at once; entries
\* and size are written by the holder of the mutex alone; and every
\* operation, when it comes to unlock, has left and is returning what it
\* would have had it run as a whole at the moment it took the mutex: the
\* execution equals the operations run one after another in the order of
\* their Locks.
C17_Serializable ==
    /\ [](\A t \in Threads : InCritical(t) => mu = t)
    /\ [](\A t \in Threads, u \in Threads :
            (InCritical(t) /\ InCritical(u)) => t = u)
    /\ [](\A t \in Threads :
            ops[t].pc = "unlock"
            => Outcome([results |-> results, size |-> size], ops[t].cached,
                       ops[t].out, ops[t].err) = ops[t].serial)
    /\ [][(results' # results \/ size' # size)
            => /\ mu # 0 /\ mu' = mu
               /\ InCritical(mu)
               /\ \A u \in Threads \ {mu} : ops'[u] = ops[u]]_vars

\* A Store has written its entry and is about to set the size while the
\* other thread waits at the Lock of a Clear.
C17_Witness ==
    \E t \in Threads, u \in Threads :
      /\ ops[t].pc = "store.after" /\ mu = t
      /\ ops[u].pc = "lock" /\ ops[u].name = "Clear"
      /\ size # SumLen(results)

\* Thread t is returning an error, or from an early return of Store that
\* wrote nothing, and has yet to unlock.
EarlyReturn(t) ==
    /\ ops[t].pc = "unlock"
    /\ \/ ops[t].err # "nil"
       \/ ops[t].name = "Store" /\ ops[t].data = <<>>

\* C23: Get, Store and Clear release the mutex on every return path, the
\* error returns and the early returns of Store included: the mutex is
\* held only by a thread that is inside an operation, a thread that
\* returns has unlocked it, a thread on an error return or an early return
\* holds the mutex and can unlock it, and under fair scheduling every
\* operation a thread has started returns, whatever the other thread does.
C23_EveryOperationCompletes ==
    /\ [](mu # 0 => InCritical(mu))
    /\ [][\A t \in Threads :
            (ops[t].pc # "idle" /\ ops'[t].pc = "idle")
            => (ops[t].pc = "unlock" /\ mu = t /\ mu' = 0)]_vars
    /\ [](\A t \in Threads : EarlyReturn(t) => (mu = t /\ ENABLED Unlock(t)))
    /\ \A t \in Threads : (ops[t].pc # "idle") ~> (ops[t].pc = "idle")

\* A Store that got a trailer it cannot decode is returning the error
\* while the other thread waits for the mutex.
C23_Witness ==
    \E t \in Threads, u \in Threads :
      /\ t # u
      /\ ops[t].name = "Store" /\ ops[t].pc = "unlock"
      /\ ops[t].err \notin {"nil", "ErrNil"}
      /\ mu = t
      /\ ops[u].pc = "lock"

====
